---- MODULE Spec2Model ----
(***************************************************************************)
(* State-machine model of the DP PDF analysis service:                     *)
(*   app/extract_all.py      text extraction with OCR fallback, tables     *)
(*   app/signature_check.py  AcroForm signature walk, wet-ink heuristic    *)
(*   app/main.py             the /analyze_pdf orchestrator                 *)
(* Text is a sequence of one-character strings.  The PDF libraries (fitz,  *)
(* pdfplumber, pikepdf, pytesseract) are the environment: every call into  *)
(* them answers with a value, or an exception, drawn from a bounded set.   *)
(***************************************************************************)
EXTENDS Integers, Sequences, FiniteSets, TLC

\* ------------------------------------------------------------ bounds
MaxPages == 2
MaxTables == 2
MaxFields == 2
MaxOcc == 3
InkSpread == 1

VARIABLES
    pc,                   \* position of the running function
    exc,                  \* what raised, once an exception left the function
    ocr_threshold_chars,  \* extract_text_and_tables: parameter
    n_pages,              \* len(doc) / len(pdf.pages)
    i,                    \* text loop: pages finished so far (loop index)
    native,               \* text loop: `text` as line 56 leaves it (normalized native)
    text,                 \* text loop: `text` as line 66 reads it
    ocr_text,             \* text loop: `ocr_text` of line 62, NoOcr if not called
    pages,                \* out["pages"]
    ocr_calls,            \* page numbers for which get_pixmap/_ocr_page_image ran
    pageno,               \* table loop: pages finished so far
    tables,               \* out["tables"]
    caught,               \* page numbers whose table extraction hit `except`
    n_fields,             \* detect_digital_signatures: len(fields)
    walked,               \* the entries of /Fields the loop has visited, as field trees
    results,              \* detect_digital_signatures: results
    pgno,                 \* detect_wet_signatures: page index
    text_instances,       \* the (label, rect) pairs of the page still to be scored
    details,              \* detect_wet_signatures: details
    count,                \* detect_wet_signatures: count
    handled,              \* label occurrences the inner loop has finished with
    skipped,              \* of those, the ones whose crop was empty
    file_given,           \* analyze_pdf: `file and file.filename`
    pdf_base64,           \* analyze_pdf: the pdf_base64 body field
    required_signers,     \* analyze_pdf: the required_signers body field
    extraction,           \* analyze_pdf: extraction
    digital,              \* analyze_pdf: digital
    wet,                  \* analyze_pdf: wet
    response              \* what analyze_pdf returned

extractVars == <<ocr_threshold_chars, i, native, text, ocr_text, pages, ocr_calls,
                 pageno, tables, caught>>
digitalVars == <<n_fields, walked, results>>
wetVars == <<pgno, text_instances, details, count, handled, skipped>>

requestVars == <<file_given, pdf_base64, required_signers>>
analyzeVars == <<requestVars, extraction, digital, wet, response>>
otherVars == <<digitalVars, wetVars, analyzeVars>>

vars == <<pc, exc, n_pages, extractVars, digitalVars, wetVars, analyzeVars>>

\* ------------------------------------------------------------ text
Whitespace == {" ", "\n", "\r", "\t"}

\* What page.get_text / pytesseract.image_to_string may answer: raw texts whose
\* normal forms have lengths 0, 0, 1, 1, 2, 3, 3 and 4.
RawTexts ==
    { <<>>,
      <<" ", "\t", "\r">>,
      <<"a">>,
      <<"b", " ">>,
      <<"\n", "a", "b">>,
      <<"a", " ", "\t", "b">>,
      <<"a", "b", "c", "\r">>,
      <<"a", "\r", "\n", "\r", "\r", "b">> }

\* s.replace("\r", "\n")
ReplaceCR(s) == [k \in DOMAIN s |-> IF s[k] = "\r" THEN "\n" ELSE s[k]]

\* length of the longest prefix of s made of characters of S
RECURSIVE RunLen(_, _)
RunLen(s, S) ==
    IF s = <<>> \/ s[1] \notin S THEN 0 ELSE 1 + RunLen(Tail(s), S)

Drop(s, n) == SubSeq(s, n + 1, Len(s))

\* re.sub(r"[ \t]+", " ", s)
RECURSIVE CollapseSpaces(_)
CollapseSpaces(s) ==
    IF s = <<>> THEN <<>>
    ELSE IF s[1] \in {" ", "\t"}
         THEN <<" ">> \o CollapseSpaces(Drop(s, RunLen(s, {" ", "\t"})))
         ELSE <<s[1]>> \o CollapseSpaces(Tail(s))

\* re.sub(r"\n{3,}", "\n\n", s)
RECURSIVE CollapseNewlines(_)
CollapseNewlines(s) ==
    IF s = <<>> THEN <<>>
    ELSE IF s[1] = "\n"
         THEN LET r == RunLen(s, {"\n"})
              IN  (IF r >= 3 THEN <<"\n", "\n">> ELSE SubSeq(s, 1, r))
                  \o CollapseNewlines(Drop(s, r))
         ELSE <<s[1]>> \o CollapseNewlines(Tail(s))

RECURSIVE LStrip(_)
LStrip(s) == IF s # <<>> /\ s[1] \in Whitespace THEN LStrip(Tail(s)) ELSE s

RECURSIVE RStrip(_)
RStrip(s) ==
    IF s # <<>> /\ s[Len(s)] \in Whitespace THEN RStrip(SubSeq(s, 1, Len(s) - 1)) ELSE s

\* str.strip()
Strip(s) == RStrip(LStrip(s))

\* _clean_text
clean_text(s) ==
    IF s = <<>> THEN <<>>
    ELSE Strip(CollapseNewlines(CollapseSpaces(ReplaceCR(s))))

\* ------------------------------------------------------------ extract_text_and_tables
NoOcr == [kind |-> "none", val |-> <<>>]
OcrText(t) == [kind |-> "text", val |-> t]

\* ocr_threshold_chars: around the text lengths, and the default of line 45
Thresholds == {0, 1, 2, 3, 4, 5, 1000}

NotRun == [kind |-> "not run"]
NoResponse == [status_code |-> 0]

ExtractIdle ==
    /\ ocr_threshold_chars = 0
    /\ i = 0
    /\ native = <<>>
    /\ text = <<>>
    /\ ocr_text = NoOcr
    /\ pages = <<>>
    /\ ocr_calls = {}
    /\ pageno = 0
    /\ tables = <<>>
    /\ caught = {}
DigitalIdle == n_fields = 0 /\ walked = <<>> /\ results = <<>>
AnalyzeIdle ==
    /\ file_given = FALSE
    /\ pdf_base64 = "None"
    /\ required_signers = [given |-> FALSE, roles |-> <<>>]
    /\ extraction = NotRun
    /\ digital = NotRun
    /\ wet = NotRun
    /\ response = NoResponse
WetIdle ==
    /\ pgno = 0
    /\ text_instances = <<>>
    /\ details = <<>>
    /\ count = 0
    /\ handled = 0
    /\ skipped = 0

InitExtract ==
    /\ DigitalIdle
    /\ WetIdle
    /\ AnalyzeIdle
    /\ pc = "open"
    /\ exc = "none"
    /\ ocr_threshold_chars \in Thresholds
    /\ n_pages = 0
    /\ i = 0
    /\ native = <<>>
    /\ text = <<>>
    /\ ocr_text = NoOcr
    /\ pages = <<>>
    /\ ocr_calls = {}
    /\ pageno = 0
    /\ tables = <<>>
    /\ caught = {}

Raise(what) == pc' = "raised" /\ exc' = what

\* line 52: fitz.open raises on bytes it cannot parse, else the page count is known
OpenDoc ==
    /\ pc = "open"
    /\ \/ /\ Raise("fitz.open")
          /\ UNCHANGED n_pages
       \/ /\ n_pages' \in 0 .. MaxPages
          /\ pc' = "text"
          /\ UNCHANGED exc
    /\ UNCHANGED <<extractVars, otherVars>>

\* line 66
AppendPageZeroBased(t) == pages' = Append(pages, [page_no |-> i, text |-> t])
AppendPage(t) == pages' = Append(pages, [page_no |-> i + 1, text |-> t])

\* line 59: the fallback trigger
NeedsOcrAtThreshold(t) == Len(t) <= ocr_threshold_chars
NeedsOcr(t) == Len(t) < ocr_threshold_chars

\* lines 63-64: the selection rule
SelectTextOnTie(t, o) == IF Len(o) >= Len(t) THEN o ELSE t
SelectText(t, o) == IF Len(o) > Len(t) THEN o ELSE t

\* lines 53-59, 66: native text is long enough, no OCR
PageNative ==
    /\ pc = "text"
    /\ i < n_pages
    /\ \E raw \in RawTexts :
         LET t == clean_text(raw) IN
         /\ ~NeedsOcr(t)
         /\ native' = t
         /\ text' = t
         /\ ocr_text' = NoOcr
         /\ AppendPage(t)
    /\ i' = i + 1
    /\ UNCHANGED <<pc, exc, ocr_threshold_chars, n_pages, ocr_calls, pageno, tables, caught,
                   otherVars>>

\* lines 53-59: native text is short, the page goes to OCR
PageFallback ==
    /\ pc = "text"
    /\ i < n_pages
    /\ \E raw \in RawTexts :
         LET t == clean_text(raw) IN
         /\ NeedsOcr(t)
         /\ native' = t
         /\ text' = t
    /\ ocr_text' = NoOcr
    /\ pc' = "ocr"
    /\ UNCHANGED <<exc, ocr_threshold_chars, n_pages, i, pages, ocr_calls, pageno, tables,
                   caught, otherVars>>

\* lines 60-66 with _ocr_page_image (33-42): rasterize, OCR, normalize, select.
\* Neither call is inside a try: an exception of the rasterizer or of the OCR
\* engine leaves extract_text_and_tables.
PageOcr ==
    /\ pc = "ocr"
    /\ ocr_calls' = ocr_calls \cup {i + 1}
    /\ \/ /\ \E what \in {"get_pixmap", "image_to_string"} : Raise(what)
          /\ UNCHANGED <<i, text, ocr_text, pages>>
       \/ /\ \E raw \in RawTexts :
               LET o == clean_text(raw) IN
               /\ ocr_text' = OcrText(o)
               /\ text' = SelectText(text, o)
               /\ AppendPage(SelectText(text, o))
          /\ i' = i + 1
          /\ pc' = "text"
          /\ UNCHANGED exc
    /\ UNCHANGED <<ocr_threshold_chars, n_pages, native, pageno, tables, caught,
                   otherVars>>

\* line 53 exhausted, line 69: pdfplumber.open is outside the per-page try
OpenTables ==
    /\ pc = "text"
    /\ i = n_pages
    /\ \/ Raise("pdfplumber.open")
       \/ pc' = "tables" /\ UNCHANGED exc
    /\ UNCHANGED <<n_pages, extractVars, otherVars>>

NextExtract == OpenDoc \/ PageNative \/ PageFallback \/ PageOcr \/ OpenTables

SpecExtract == InitExtract /\ [][NextExtract]_vars
\* ---- the table loop (lines 69-87)
\* A cell as pdfplumber hands it over: None or a string.
NoneCell == [kind |-> "None", s |-> <<>>]
Str(t) == [kind |-> "str", s |-> t]
\* A row of a candidate table; a row that is no list (a bad grid) cannot be iterated.
Row(cells) == [iterable |-> TRUE, cells |-> cells]
BadRow == [iterable |-> FALSE, cells |-> <<>>]

TGood == << Row(<<Str(<<"a">>), NoneCell>>), Row(<<Str(<<" ", "b", " ">>), Str(<<>>)>>) >>
TBlank == << Row(<<NoneCell, Str(<<" ">>)>>) >>
TRagged == << Row(<<Str(<<>>), NoneCell>>), Row(<<Str(<<"a">>)>>),
              Row(<<Str(<<"a">>), Str(<<"b">>)>>) >>
TBad == << Row(<<Str(<<"a">>)>>), BadRow >>
TablePool == {TGood, TBlank, TRagged, TBad}

RECURSIVE SeqsUpTo(_, _)
SeqsUpTo(S, n) ==
    IF n = 0 THEN {<<>>}
    ELSE LET shorter == SeqsUpTo(S, n - 1)
         IN  shorter \cup {Append(q, e) : q \in {r \in shorter : Len(r) = n - 1}, e \in S}

\* What p.extract_tables() may answer: an exception, None, or a list of tables.
ExtractTablesAnswers ==
    {[kind |-> "raise", ts |-> <<>>], [kind |-> "None", ts |-> <<>>]}
    \cup {[kind |-> "list", ts |-> ts] : ts \in SeqsUpTo(TablePool, MaxTables)}

PageBBox == <<0, 0, 612, 792>>

\* line 76: (c or "").strip()
CleanCell(c) == IF c.kind = "None" THEN <<>> ELSE Strip(c.s)
CleanRow(row) == [k \in DOMAIN row.cells |-> CleanCell(row.cells[k])]
\* line 77: any(cell for cell in row)
AnyCell(cells) == \E k \in DOMAIN cells : cells[k] # <<>>

\* lines 74-78: the surviving rows of one table, or the exception of a bad row
RECURSIVE CleanRows(_, _)
CleanRows(t, rows) ==
    IF t = <<>> THEN [raised |-> FALSE, rows |-> rows]
    ELSE IF ~t[1].iterable THEN [raised |-> TRUE, rows |-> rows]
    ELSE LET row == CleanRow(t[1])
         IN  CleanRows(Tail(t), IF AnyCell(row) THEN Append(rows, row) ELSE rows)

\* lines 79-85
TableRecord(p, rows) ==
    [page_no |-> p, rows |-> rows, cols |-> Len(rows[1]), bbox |-> PageBBox]

\* lines 73-85: the tables of one page in order, each appended to out["tables"]
\* as soon as it is cleaned, until one raises
RECURSIVE PageTables(_, _, _)
PageTables(ts, p, out) ==
    IF ts = <<>> THEN [raised |-> FALSE, out |-> out]
    ELSE LET c == CleanRows(ts[1], <<>>)
         IN  IF c.raised THEN [raised |-> TRUE, out |-> out]
             ELSE PageTables(Tail(ts), p,
                             IF c.rows # <<>> THEN Append(out, TableRecord(p, c.rows))
                             ELSE out)

\* lines 70-87: one page of the table loop; `except Exception: continue`
TablePage ==
    /\ pc = "tables"
    /\ pageno < n_pages
    /\ \E ans \in ExtractTablesAnswers :
         LET r == IF ans.kind = "raise" THEN [raised |-> TRUE, out |-> tables]
                  ELSE PageTables(ans.ts, pageno + 1, tables)
         IN  /\ tables' = r.out
             /\ caught' = IF r.raised THEN caught \cup {pageno + 1} ELSE caught
    /\ pageno' = pageno + 1
    /\ UNCHANGED <<pc, exc, ocr_threshold_chars, n_pages, i, native, text, ocr_text,
                   pages, ocr_calls, otherVars>>

\* line 89
ReturnOut ==
    /\ pc = "tables"
    /\ pageno = n_pages
    /\ pc' = "done"
    /\ UNCHANGED <<exc, n_pages, extractVars, otherVars>>

\* The table loop starts where the text loop of a document of blank pages,
\* read with ocr_threshold_chars = 0, has left the function.
InitTables ==
    /\ DigitalIdle
    /\ WetIdle
    /\ AnalyzeIdle
    /\ pc = "tables"
    /\ exc = "none"
    /\ ocr_threshold_chars = 0
    /\ n_pages \in 0 .. MaxPages
    /\ i = n_pages
    /\ native = <<>>
    /\ text = <<>>
    /\ ocr_text = NoOcr
    /\ pages = [k \in 1 .. n_pages |-> [page_no |-> k, text |-> <<>>]]
    /\ ocr_calls = {}
    /\ pageno = 0
    /\ tables = <<>>
    /\ caught = {}

NextTables == TablePage \/ ReturnOut

SpecTables == InitTables /\ [][NextTables]_vars

\* ------------------------------------------------------------ detect_digital_signatures
\* /M strings a value dictionary may hold
DFull == <<"D", ":", "2", "0", "2", "5", "0", "1", "0", "1", "1", "2", "0", "0", "0", "0">>
DDateOnly == <<"D", ":", "2", "0", "2", "5", "0", "1", "0", "1">>
DFullTz == <<"D", ":", "2", "0", "2", "5", "0", "1", "0", "1", "1", "2", "0", "0", "0", "0", "+", "0", "5", "'", "3", "0", "'">>
DDateTz == <<"D", ":", "2", "0", "2", "5", "0", "1", "0", "1", "+", "0", "5", "'", "3", "0", "'">>
DFullZ == <<"D", ":", "2", "0", "2", "4", "0", "2", "2", "9", "2", "3", "5", "9", "5", "9", "Z">>
DNoPrefix == <<"2", "0", "2", "5", "0", "1", "0", "1", "1", "2", "0", "0", "0", "0">>
DShort == <<"D", ":", "2", "0", "2", "5">>
DBadMonth == <<"D", ":", "2", "0", "2", "5", "1", "3", "0", "1">>
DBadDay == <<"D", ":", "2", "0", "2", "5", "0", "2", "3", "0", "1", "2", "0", "0", "0", "0">>
DEmpty == <<>>
DatePool == {DFull, DDateOnly, DFullTz, DDateTz, DFullZ, DNoPrefix, DShort, DBadMonth, DBadDay, DEmpty}

\* What pikepdf hands back for a key of a dictionary: a string of the PDF comes
\* as a pikepdf.String object, which is no Python str; the default "" of
\* .get(key, "") is a Python str.
PdfString(cs) == [type |-> "pikepdf.String", s |-> cs]
PyStr(cs) == [type |-> "str", s |-> cs]
Absent == [type |-> "absent", s |-> <<>>]

\* dict.get(key, ""): the object under the key, or the str default
GetOr(entry) == IF entry.type = "absent" THEN PyStr(<<>>) ELSE entry

\* str(x)
ToStr(x) == x.s

Digits == <<"0", "1", "2", "3", "4", "5", "6", "7", "8", "9">>
IsDigit(c) == \E d \in DOMAIN Digits : Digits[d] = c
DigitVal(c) == (CHOOSE d \in DOMAIN Digits : Digits[d] = c) - 1

\* s[a:b]
Slice(s, a, b) == SubSeq(s, a + 1, IF b < Len(s) THEN b ELSE Len(s))

RECURSIVE DigitsVal(_, _)
DigitsVal(s, acc) ==
    IF s = <<>> THEN acc ELSE DigitsVal(Tail(s), 10 * acc + DigitVal(s[1]))

\* int(x) on a string of digits with an optional sign; ValueError otherwise
PyInt(s) ==
    LET body == IF s # <<>> /\ s[1] \in {"+", "-"} THEN Tail(s) ELSE s
    IN  IF body = <<>> \/ \E k \in DOMAIN body : ~IsDigit(body[k])
        THEN [ok |-> FALSE, n |-> 0]
        ELSE [ok |-> TRUE,
              n |-> IF s[1] = "-" THEN 0 - DigitsVal(body, 0) ELSE DigitsVal(body, 0)]

\* int(x or 0)
PyIntOr0(s) == IF s = <<>> THEN [ok |-> TRUE, n |-> 0] ELSE PyInt(s)

IsLeap(y) == (y % 4 = 0 /\ y % 100 # 0) \/ y % 400 = 0
DaysIn(y, m) ==
    IF m = 2 THEN (IF IsLeap(y) THEN 29 ELSE 28)
    ELSE IF m \in {4, 6, 9, 11} THEN 30 ELSE 31

\* datetime.datetime(...) accepts the fields
ValidDateTime(y, m, d, hh, mm, ss) ==
    /\ y \in 1 .. 9999
    /\ m \in 1 .. 12
    /\ d >= 1 /\ d <= DaysIn(y, m)
    /\ hh \in 0 .. 23
    /\ mm \in 0 .. 59
    /\ ss \in 0 .. 59

\* "%0*d"
RECURSIVE Pad(_, _)
Pad(n, width) ==
    IF width = 0 THEN <<>> ELSE Pad(n \div 10, width - 1) \o <<Digits[(n % 10) + 1]>>

\* datetime.isoformat()
IsoFormat(y, m, d, hh, mm, ss) ==
    Pad(y, 4) \o <<"-">> \o Pad(m, 2) \o <<"-">> \o Pad(d, 2) \o <<"T">>
    \o Pad(hh, 2) \o <<":">> \o Pad(mm, 2) \o <<":">> \o Pad(ss, 2)

\* _parse_pdf_date (lines 69-86)
parse_pdf_date(pdf_date) ==
    IF pdf_date.s = <<>> \/ pdf_date.type # "str"
       \/ Slice(pdf_date.s, 0, 2) # <<"D", ":">>
    THEN <<>>
    ELSE LET s == Slice(pdf_date.s, 2, Len(pdf_date.s))
             year == PyInt(Slice(s, 0, 4))
             month == PyInt(Slice(s, 4, 6))
             day == PyInt(Slice(s, 6, 8))
             hour == PyIntOr0(Slice(s, 8, 10))
             minute == PyIntOr0(Slice(s, 10, 12))
             sec == PyIntOr0(Slice(s, 12, 14))
         IN  IF /\ year.ok /\ month.ok /\ day.ok /\ hour.ok /\ minute.ok /\ sec.ok
                /\ ValidDateTime(year.n, month.n, day.n, hour.n, minute.n, sec.n)
             THEN IsoFormat(year.n, month.n, day.n, hour.n, minute.n, sec.n)
             ELSE <<>>

\* A form field of the document: readable is FALSE for a corrupt object
\* (f.get_object() raises); v is its value dictionary or NoValue.
NoValue == [present |-> FALSE, name |-> Absent, location |-> Absent,
            reason |-> Absent, m |-> Absent]
SigDict(m) == [present |-> TRUE, name |-> PdfString(<<"A">>), location |-> Absent,
               reason |-> PdfString(<<"o", "k">>), m |-> m]
Field(ft, v, kids) ==
    [readable |-> TRUE, ft |-> ft, t |-> PdfString(<<"f">>), v |-> v, kids |-> kids]
CorruptField ==
    [readable |-> FALSE, ft |-> "None", t |-> Absent, v |-> NoValue, kids |-> <<>>]

LeafFields ==
    {Field("Sig", NoValue, <<>>), Field("Tx", NoValue, <<>>), CorruptField}
    \cup {Field("Sig", SigDict(PdfString(d)), <<>>) : d \in DatePool}
    \cup {Field("Sig", SigDict(Absent), <<>>)}

\* fields with /Kids: a container without /FT over a signature field, at depth
\* one and two, and a signature field with a signature kid
FieldPool ==
    LeafFields
    \cup {Field("None", NoValue, <<Field("Sig", NoValue, <<>>)>>),
          Field("None", NoValue,
                <<Field("None", NoValue, <<Field("Sig", SigDict(PdfString(DFull)), <<>>)>>),
                  Field("Tx", NoValue, <<>>)>>),
          Field("Sig", NoValue, <<Field("Sig", NoValue, <<>>)>>)}

\* lines 44-52
SignedRecord(field) ==
    [field_name |-> ToStr(GetOr(field.t)),
     signed |-> TRUE,
     signer_name |-> ToStr(GetOr(field.v.name)),
     location |-> ToStr(GetOr(field.v.location)),
     reason |-> ToStr(GetOr(field.v.reason)),
     signed_on |-> parse_pdf_date(GetOr(field.v.m)),
     raw_time |-> ToStr(GetOr(field.v.m))]

\* lines 55-58
UnsignedRecord(field) ==
    [field_name |-> ToStr(GetOr(field.t)), signed |-> FALSE]

\* lines 30-61: one entry of /Fields; its /Kids are not read.  `ft.name == "Sig"`
\* is taken as the test for /FT /Sig, `if v` as the test for a value dictionary.
WalkOne(f, res) ==
    IF ~f.readable THEN res
    ELSE IF f.ft = "Sig"
         THEN Append(res, IF f.v.present THEN SignedRecord(f) ELSE UnsignedRecord(f))
         ELSE res

InitDigital ==
    /\ pc = "d_open"
    /\ exc = "none"
    /\ n_pages = 0
    /\ ExtractIdle
    /\ DigitalIdle
    /\ WetIdle
    /\ AnalyzeIdle

\* lines 22-28, 62-66: a PDF pikepdf cannot open, or one without /AcroForm,
\* returns the empty list; else the /Fields array is there
OpenPdf ==
    /\ pc = "d_open"
    /\ \/ /\ pc' = "d_done"
          /\ exc' \in {"caught pikepdf.open", "no AcroForm"}
          /\ UNCHANGED n_fields
       \/ /\ pc' = "d_fields"
          /\ n_fields' \in 0 .. MaxFields
          /\ UNCHANGED exc
    /\ UNCHANGED <<n_pages, extractVars, walked, results, wetVars, analyzeVars>>

\* lines 29-61: the next entry of /Fields
WalkField ==
    /\ pc = "d_fields"
    /\ Len(walked) < n_fields
    /\ \E f \in FieldPool :
         /\ walked' = Append(walked, f)
         /\ results' = WalkOne(f, results)
    /\ UNCHANGED <<pc, exc, n_pages, extractVars, n_fields, wetVars, analyzeVars>>

\* line 66
ReturnResults ==
    /\ pc = "d_fields"
    /\ Len(walked) = n_fields
    /\ pc' = "d_done"
    /\ UNCHANGED <<exc, n_pages, extractVars, otherVars>>

NextDigital == OpenPdf \/ WalkField \/ ReturnResults

SpecDigital == InitDigital /\ [][NextDigital]_vars

\* ------------------------------------------------------------ detect_wet_signatures
LABELS ==
    <<"signature", "signatory", "authorised signatory", "authorized signatory",
      "approved by", "signed by">>

\* line 101: density_threshold = 0.02, in units of 1/10000
DensityThreshold10k == 200
\* lines 137-138
expand_w == 200
expand_h == 60
\* line 149: fitz.Matrix(2, 2)
Zoom == 2

PageRect == [x0 |-> 0, y0 |-> 0, x1 |-> 612, y1 |-> 792]

\* Where page.search_for may find a label: in the page, at its right edge (the
\* crop starts on the page's border), near its top (the crop is cut by the page).
RectPool ==
    {[x0 |-> 40, y0 |-> 100, x1 |-> 100, y1 |-> 112],
     [x0 |-> 542, y0 |-> 100, x1 |-> 602, y1 |-> 112],
     [x0 |-> 440, y0 |-> 5, x1 |-> 500, y1 |-> 17]}

\* the labels the pages of the document contain (indexes into LABELS)
FoundLabels == {1, 6}

\* lines 130-133: the occurrences of a page, label by label in LABELS order
InstanceLists(n) ==
    {l \in SeqsUpTo([label : FoundLabels, rect : RectPool], n) :
        \A k \in 1 .. Len(l) - 1 : l[k].label <= l[k + 1].label}

Max(a, b) == IF a > b THEN a ELSE b
Min(a, b) == IF a < b THEN a ELSE b

\* lines 139-144
CropOf(rect) ==
    [x0 |-> rect.x1 + 10, y0 |-> rect.y0 - 10,
     x1 |-> rect.x1 + 10 + expand_w, y1 |-> rect.y0 - 10 + expand_h]

\* line 145: crop & page.rect
Intersect(a, b) ==
    [x0 |-> Max(a.x0, b.x0), y0 |-> Max(a.y0, b.y0),
     x1 |-> Min(a.x1, b.x1), y1 |-> Min(a.y1, b.y1)]

\* line 146: Rect.is_empty
IsEmpty(r) == r.x0 >= r.x1 \/ r.y0 >= r.y1

\* lines 149-151, 158: bw.size, the pixels of the crop rendered at 2x
PixelCount(crop) == (Zoom * (crop.x1 - crop.x0)) * (Zoom * (crop.y1 - crop.y0))

\* np.count_nonzero(bw): no ink, all ink, and counts at and just below the
\* threshold's share of the pixels
InkCounts(size) ==
    {0, size} \cup {(DensityThreshold10k * size) \div 10000 - d : d \in 0 .. InkSpread}

\* line 160: ink_ratio >= density_threshold, on the exact ratio nonzero / size
Present(nonzero, size) == nonzero * 10000 >= DensityThreshold10k * size

\* line 168: round(ink_ratio, 4), in units of 1/10000 (round-half-even)
Round4(nonzero, size) ==
    LET q == (nonzero * 10000) \div size
        r == (nonzero * 10000) % size
    IN  IF 2 * r < size THEN q
        ELSE IF 2 * r > size THEN q + 1
        ELSE IF q % 2 = 0 THEN q ELSE q + 1

\* lines 161-162
NewCountAlways(c, present) == c + 1
NewCount(c, present) == IF present THEN c + 1 ELSE c

\* lines 164-170
Detail(page, label, crop, nonzero, size) ==
    [page |-> page, label |-> LABELS[label],
     bbox |-> <<crop.x0, crop.y0, crop.x1, crop.y1>>,
     ink_density |-> Round4(nonzero, size),
     present |-> Present(nonzero, size)]

InitWet ==
    /\ pc = "w_open"
    /\ exc = "none"
    /\ n_pages = 0
    /\ ExtractIdle
    /\ DigitalIdle
    /\ WetIdle
    /\ AnalyzeIdle

\* line 123: fitz.open, outside any try
OpenWet ==
    /\ pc = "w_open"
    /\ \/ /\ Raise("fitz.open")
          /\ UNCHANGED n_pages
       \/ /\ n_pages' \in 0 .. MaxPages
          /\ pc' = "w_page"
          /\ UNCHANGED exc
    /\ UNCHANGED <<extractVars, digitalVars, wetVars, analyzeVars>>

\* lines 127-133: the label search of the next page
SearchPage ==
    /\ pc = "w_page"
    /\ pgno < n_pages
    /\ text_instances' \in InstanceLists(MaxOcc - handled)
    /\ pc' = "w_inst"
    /\ UNCHANGED <<exc, n_pages, extractVars, digitalVars, pgno, details, count,
                   handled, skipped, analyzeVars>>

\* lines 135-170: one (label, rect) of the page
ScoreInstance ==
    /\ pc = "w_inst"
    /\ text_instances # <<>>
    /\ LET inst == Head(text_instances)
           crop == Intersect(CropOf(inst.rect), PageRect)
       IN  /\ text_instances' = Tail(text_instances)
           /\ IF IsEmpty(crop)
              THEN /\ skipped' = skipped + 1
                   /\ handled' = handled + 1
                   /\ UNCHANGED <<pc, exc, details, count>>
              ELSE \/ /\ Raise("get_pixmap")
                      /\ UNCHANGED <<details, count, handled, skipped>>
                   \/ /\ \E nonzero \in InkCounts(PixelCount(crop)) :
                           /\ count' = NewCount(count, Present(nonzero, PixelCount(crop)))
                           /\ details' = Append(details,
                                  Detail(pgno + 1, inst.label, crop, nonzero, PixelCount(crop)))
                      /\ handled' = handled + 1
                      /\ UNCHANGED <<pc, exc, skipped>>
    /\ UNCHANGED <<n_pages, extractVars, digitalVars, pgno, analyzeVars>>

\* line 135 exhausted: on to the next page
EndPage ==
    /\ pc = "w_inst"
    /\ text_instances = <<>>
    /\ pgno' = pgno + 1
    /\ pc' = "w_page"
    /\ UNCHANGED <<exc, n_pages, extractVars, digitalVars, text_instances, details,
                   count, handled, skipped, analyzeVars>>

\* line 172
ReturnWet ==
    /\ pc = "w_page"
    /\ pgno = n_pages
    /\ pc' = "w_done"
    /\ UNCHANGED <<exc, n_pages, extractVars, digitalVars, wetVars, analyzeVars>>

NextWet == OpenWet \/ SearchPage \/ ScoreInstance \/ EndPage \/ ReturnWet

SpecWet == InitWet /\ [][NextWet]_vars

\* ------------------------------------------------------------ analyze_pdf
\* What the three calls of lines 78-82 may hand back for the uploaded bytes.
\* extract_text_and_tables and detect_wet_signatures let the exceptions of
\* SpecExtract and SpecWet through; detect_digital_signatures catches its own.
Returned(v) == [kind |-> "ok", val |-> v, what |-> "none"]
Raised(what) == [kind |-> "raise", val |-> <<>>, what |-> what]

ExtractionOutcomes ==
    {Returned([pages |-> <<>>, tables |-> <<>>]),
     Returned([pages |-> <<[page_no |-> 1, text |-> <<"a", "b">>]>>,
               tables |-> <<TableRecord(1, <<<< <<"a">>, <<>> >>>>)>>])}
    \cup {Raised(w) : w \in {"fitz.open", "get_pixmap", "image_to_string", "pdfplumber.open"}}

DigitalOutcomes ==
    {Returned(<<>>),
     Returned(<<UnsignedRecord(Field("Sig", NoValue, <<>>))>>),
     Returned(<<SignedRecord(Field("Sig", SigDict(PdfString(DFull)), <<>>))>>)}

WetOutcomes ==
    {Returned([wet_signatures_detected |-> 0, details |-> <<>>]),
     Returned([wet_signatures_detected |-> 1,
               details |-> <<Detail(1, 6, Intersect(CropOf([x0 |-> 40, y0 |-> 100,
                                                            x1 |-> 100, y1 |-> 112]),
                                                  PageRect), 4800, 48000)>>]),
     Raised("get_pixmap")}

\* required_signers: None, or a list of roles
SignersPool ==
    {[given |-> FALSE, roles |-> <<>>], [given |-> TRUE, roles |-> <<>>],
     [given |-> TRUE, roles |-> <<"cfo">>], [given |-> TRUE, roles |-> <<"cfo", "ceo">>]}

InitAnalyze ==
    /\ pc = "a_request"
    /\ exc = "none"
    /\ n_pages = 0
    /\ ExtractIdle
    /\ DigitalIdle
    /\ WetIdle
    /\ file_given \in BOOLEAN
    /\ pdf_base64 \in {"None", "", "valid", "invalid"}
    /\ required_signers \in SignersPool
    /\ extraction = NotRun
    /\ digital = NotRun
    /\ wet = NotRun
    /\ response = NoResponse

\* lines 107-111: except Exception -> the error response
ErrorResponse(what) ==
    /\ response' = [status_code |-> 500, body |-> [status |-> "error", message |-> what]]
    /\ exc' = what
    /\ pc' = "a_done"

\* lines 65-73: the bytes of the upload, of the base64 field, or the 400 answer
ReadRequest ==
    /\ pc = "a_request"
    /\ IF file_given \/ pdf_base64 = "valid"
       THEN pc' = "a_extract" /\ UNCHANGED <<exc, response>>
       ELSE IF pdf_base64 = "invalid"
       THEN ErrorResponse("b64decode")
       ELSE /\ response' = [status_code |-> 400,
                            body |-> [status |-> "error", message |-> "No PDF provided"]]
            /\ pc' = "a_done"
            /\ UNCHANGED exc
    /\ UNCHANGED <<n_pages, extractVars, digitalVars, wetVars, requestVars,
                   extraction, digital, wet>>

\* lines 75-78
RunExtraction ==
    /\ pc = "a_extract"
    /\ \E o \in ExtractionOutcomes :
         /\ extraction' = o
         /\ IF o.kind = "raise" THEN ErrorResponse(o.what)
            ELSE pc' = "a_digital" /\ UNCHANGED <<exc, response>>
    /\ UNCHANGED <<n_pages, extractVars, digitalVars, wetVars, requestVars, digital, wet>>

\* line 81
RunDigital ==
    /\ pc = "a_digital"
    /\ digital' \in DigitalOutcomes
    /\ pc' = "a_wet"
    /\ UNCHANGED <<exc, n_pages, extractVars, digitalVars, wetVars, requestVars,
                   extraction, wet, response>>

\* line 82
RunWet ==
    /\ pc = "a_wet"
    /\ \E o \in WetOutcomes :
         /\ wet' = o
         /\ IF o.kind = "raise" THEN ErrorResponse(o.what)
            ELSE pc' = "a_result" /\ UNCHANGED <<exc, response>>
    /\ UNCHANGED <<n_pages, extractVars, digitalVars, wetVars, requestVars,
                   extraction, digital>>

\* lines 96-99
AnySig(dig, w) ==
    (Len(dig) > 0 /\ \E k \in DOMAIN dig : dig[k].signed) \/ w.wet_signatures_detected > 0

\* lines 84-105
BuildResult ==
    /\ pc = "a_result"
    /\ LET base == [status |-> "ok",
                    file_hash |-> "sha256(pdf_bytes)",
                    extraction |-> extraction.val,
                    signatures |-> [digital_signatures |-> digital.val,
                                    wet_signature |-> wet.val]]
           eval == [k \in DOMAIN required_signers.roles |->
                       [signer_role |-> required_signers.roles[k],
                        present |-> AnySig(digital.val, wet.val)]]
       IN  response' = [status_code |-> 200,
                        body |-> IF required_signers.given /\ required_signers.roles # <<>>
                                 THEN [status |-> "ok",
                                       file_hash |-> base.file_hash,
                                       extraction |-> base.extraction,
                                       signatures |-> base.signatures,
                                       required_signers_eval |-> eval]
                                 ELSE base]
    /\ pc' = "a_done"
    /\ UNCHANGED <<exc, n_pages, extractVars, digitalVars, wetVars, requestVars,
                   extraction, digital, wet>>

NextAnalyze == ReadRequest \/ RunExtraction \/ RunDigital \/ RunWet \/ BuildResult

SpecAnalyze == InitAnalyze /\ [][NextAnalyze]_vars

\* ------------------------------------------------------------ properties: extraction
OcrErrors == {"get_pixmap", "image_to_string"}

\* C2: a failure of the OCR engine, or of the rasterization feeding it, on a page
\* does not abort the document: the function does not end in that exception, and
\* the page's text record is there and carries the normalized native text.
C2_OcrFailureKeepsDocument ==
    exc \in OcrErrors =>
        /\ pc # "raised"
        /\ Len(pages) >= i + 1
        /\ pages[i + 1].text = native

\* the last page the text loop finished, with its locals still in place
LastPageDone == i >= 1 /\ (pc \in {"text", "tables"} \/ exc = "pdfplumber.open")

\* C3: OCR is invoked exactly for the pages whose normalized native text is
\* strictly shorter than ocr_threshold_chars; a page at or above the threshold is
\* never rasterized or OCRed and its record is the normalized native text.
C3_OcrExactlyBelowThreshold ==
    /\ ocr_calls \subseteq 1 .. n_pages
    /\ pc = "ocr" => Len(native) < ocr_threshold_chars
    /\ exc \in OcrErrors => Len(native) < ocr_threshold_chars
    /\ LastPageDone =>
          /\ (i \in ocr_calls) <=> (Len(native) < ocr_threshold_chars)
          /\ i \notin ocr_calls => pages[i].text = native /\ ocr_text = NoOcr
    /\ \A k \in 1 .. Len(pages) :
          k \notin ocr_calls => Len(pages[k].text) >= ocr_threshold_chars

C3_Witness ==
    /\ pc = "tables"
    /\ i = 2
    /\ ocr_calls = {1}
    /\ ocr_threshold_chars > 0
    /\ Len(native) = ocr_threshold_chars
    /\ pages[2].text = native

\* C4: where OCR ran and succeeded the selected text is the normalized OCR text
\* iff it is strictly longer than the normalized native text, else the native
\* text (equal lengths included); it is one of the two, in normal form.
C4_SelectionRule ==
    (LastPageDone /\ ocr_text.kind = "text") =>
        /\ pages[i].text = (IF Len(ocr_text.val) > Len(native) THEN ocr_text.val ELSE native)
        /\ (Len(native) < ocr_threshold_chars /\ ocr_threshold_chars < Len(ocr_text.val))
              => pages[i].text = ocr_text.val
        /\ pages[i].text \in {native, ocr_text.val}
        /\ clean_text(pages[i].text) = pages[i].text

C4_Witness ==
    /\ LastPageDone
    /\ ocr_text.kind = "text"
    /\ Len(native) >= 1
    /\ Len(native) < ocr_threshold_chars
    /\ ocr_threshold_chars < Len(ocr_text.val)
    /\ pages[i].text = ocr_text.val

\* C5: the text records built so far are those of pages 1..i in order, the k-th
\* with page_no = k, and there are len(doc) of them once the page loop has ended.
C5_PageNumbers ==
    /\ i <= n_pages
    /\ Len(pages) = i
    /\ \A k \in 1 .. Len(pages) : pages[k].page_no = k
    /\ pc = "tables" => Len(pages) = n_pages

C5_Witness ==
    /\ pc = "tables"
    /\ n_pages = 2
    /\ Len(pages) = 2
    /\ pages[1].page_no = 1
    /\ pages[2].page_no = 2

\* ------------------------------------------------------------ properties: tables
\* C6: a page whose table extraction raised, at whatever point, has no
\* TableRecord in the output.
C6_FailedPageHasNoTables ==
    \A p \in caught : \A k \in 1 .. Len(tables) : tables[k].page_no # p
\* ------------------------------------------------------------ properties: digital signatures
\* the signature-typed fields of a field tree, kids at any depth included
RECURSIVE SigFieldsIn(_)
RECURSIVE SigFieldsInAll(_)
SigFieldsIn(f) ==
    IF ~f.readable THEN 0
    ELSE (IF f.ft = "Sig" THEN 1 ELSE 0) + SigFieldsInAll(f.kids)
SigFieldsInAll(fs) ==
    IF fs = <<>> THEN 0 ELSE SigFieldsIn(fs[1]) + SigFieldsInAll(Tail(fs))

\* C7: one record is emitted for every /Sig field of the field tree under
\* /Fields, the fields nested under /Kids included.
C7_EveryNestedSigFieldEmitted ==
    Len(results) = SigFieldsInAll(walked)

\* D:YYYYMMDD[HHMMSS][timezone] with a date and a time that exist
AllDigits(s) == \A k \in DOMAIN s : IsDigit(s[k])
IsTimezone(r) == r = <<>> \/ r[1] \in {"Z", "+", "-"}
HasTime(s) == Len(s) >= 16 /\ AllDigits(SubSeq(s, 11, 16))
WellFormedDate(s) ==
    /\ Len(s) >= 10
    /\ SubSeq(s, 1, 2) = <<"D", ":">>
    /\ AllDigits(SubSeq(s, 3, 10))
    /\ IF HasTime(s) THEN IsTimezone(SubSeq(s, 17, Len(s)))
       ELSE IsTimezone(SubSeq(s, 11, Len(s)))
    /\ ValidDateTime(DigitsVal(SubSeq(s, 3, 6), 0), DigitsVal(SubSeq(s, 7, 8), 0),
                     DigitsVal(SubSeq(s, 9, 10), 0),
                     IF HasTime(s) THEN DigitsVal(SubSeq(s, 11, 12), 0) ELSE 0,
                     IF HasTime(s) THEN DigitsVal(SubSeq(s, 13, 14), 0) ELSE 0,
                     IF HasTime(s) THEN DigitsVal(SubSeq(s, 15, 16), 0) ELSE 0)
\* YYYY-MM-DDTHH:MM:SS read off the date string
ExpectedIso(s) ==
    SubSeq(s, 3, 6) \o <<"-">> \o SubSeq(s, 7, 8) \o <<"-">> \o SubSeq(s, 9, 10) \o <<"T">>
    \o (IF HasTime(s)
        THEN SubSeq(s, 11, 12) \o <<":">> \o SubSeq(s, 13, 14) \o <<":">> \o SubSeq(s, 15, 16)
        ELSE <<"0", "0", ":", "0", "0", ":", "0", "0">>)

\* C8: the record of a signed field carries in signed_on the ISO-8601 form of
\* its well-formed /M date, and the empty string only for an absent or malformed one.
C8_SignedOnIsIsoOfDate ==
    \A k \in 1 .. Len(results) :
        results[k].signed =>
            results[k].signed_on =
                (IF WellFormedDate(results[k].raw_time)
                 THEN ExpectedIso(results[k].raw_time) ELSE <<>>)
\* ------------------------------------------------------------ properties: wet signatures
RECURSIVE PresentIn(_)
PresentIn(ds) ==
    IF ds = <<>> THEN 0 ELSE (IF ds[1].present THEN 1 ELSE 0) + PresentIn(Tail(ds))

\* C9: after any number of pages and occurrences, count is the number of
\* details entries with present = true, and an occurrence whose crop does not
\* meet the page adds to neither.
C9_CountIsPresentEntries ==
    /\ count = PresentIn(details)
    /\ Len(details) = handled - skipped
    /\ \A k \in 1 .. Len(details) :
          details[k].bbox[1] < details[k].bbox[3] /\ details[k].bbox[2] < details[k].bbox[4]

C9_Witness ==
    /\ pc = "w_done"
    /\ skipped >= 1
    /\ Len(details) >= 2
    /\ count >= 1
    /\ count < Len(details)

\* C10: every returned record has present = (ink_density >= density_threshold)
\* for the ink_density the record itself reports.
C10_PresentMatchesReportedDensity ==
    \A k \in 1 .. Len(details) :
        details[k].present <=> (details[k].ink_density >= DensityThreshold10k)
\* ------------------------------------------------------------ properties: orchestrator
\* the exceptions the content of a PDF that opens can cause in a sub-pipeline
PipelineErrors == {"get_pixmap", "image_to_string", "pdfplumber.open"}

\* C1: a sub-pipeline that raised does not take the others with it: analyze_pdf
\* still answers with the result record, holding the outputs of the sub-pipelines
\* that ran, and never with an error for a reason in the document.
C1_SubPipelineFailureIsIsolated ==
    (pc = "a_done" /\ exc \in PipelineErrors) =>
        /\ response.status_code = 200
        /\ response.body.status = "ok"
        /\ extraction.kind = "ok" => response.body.extraction = extraction.val
        /\ digital # NotRun =>
              response.body.signatures.digital_signatures = digital.val
====
